---- MODULE Spec2Model ----
(***************************************************************************)
(* Model of the energy_core delta engine                                   *)
(* (custom_components/energy_core/coordinator.py).                         *)
(*                                                                         *)
(* Every energy quantity is an integer count of 10^-6 kWh: the grid on     *)
(* which round(x, 6) places every total (coordinator.py:124) and every     *)
(* difference (coordinator.py:148), so subtraction on that grid is exact.  *)
(* An Optional[T] of the source is a sequence of length 0 (None) or 1.     *)
(***************************************************************************)
EXTENDS Integers, Sequences, FiniteSets, TLC

\* ------------------------------------------------------------------ bounds
\* invocations of _async_update_data per behaviour
MaxCalls == 4

\* --------------------------------------------------------------- constants
MAX_KW_ASSUMED == 50
\* 10^6: the resolution of round(x, 6)
MicroPerKwh == 1000000

_max_kwh_per_change == MAX_KW_ASSUMED * MicroPerKwh

None == <<>>
Some(v) == <<v>>
NoReason == "None"

\* the five cumulative sources, in the order the code reads and checks them
Sources == <<"imported_kwh", "exported_kwh", "produced_kwh", "battery_charge_kwh", "battery_discharge_kwh">>
SourceSet == {Sources[i] : i \in 1..Len(Sources)}
Pos(s) == CHOOSE i \in 1..Len(Sources) : Sources[i] = s

\* EnergyDeltas field of each source
DeltaField(s) ==
    CASE s = "imported_kwh" -> "dA_imported_kwh"
      [] s = "exported_kwh" -> "dB_exported_kwh"
      [] s = "produced_kwh" -> "dC_produced_kwh"
      [] s = "battery_charge_kwh" -> "dD_charge_kwh"
      [] s = "battery_discharge_kwh" -> "dE_discharge_kwh"

\* EnergyTotals(): every field defaults to 0.0
EnergyTotals ==
    [imported_kwh |-> 0, exported_kwh |-> 0, produced_kwh |-> 0,
     battery_charge_kwh |-> 0, battery_discharge_kwh |-> 0,
     co2_intensity_g_per_kwh |-> 0]

\* EnergyDeltas(valid=.., reason=..): the five deltas default to 0.0
EnergyDeltas(valid, reason) ==
    [dA_imported_kwh |-> 0, dB_exported_kwh |-> 0, dC_produced_kwh |-> 0,
     dD_charge_kwh |-> 0, dE_discharge_kwh |-> 0,
     valid |-> valid, reason |-> reason]

\* what one entity can read as: None (unreadable) or a cumulative total
\* The totals explored are 0, the ceiling and one step above it: between two
\* of them lie a flat counter, an increase of one step, an increase of exactly
\* the ceiling, an increase above it, and decreases.
Readings == {0, _max_kwh_per_change, _max_kwh_per_change + 1}
EntityReadings == {None} \cup {Some(v) : v \in Readings}
\* carbon-intensity readings (g/kWh); 0 is also what an unreadable one reads as
Co2Readings == {0, 1}
\* entry.data as explored: at most two of the five sources have an entity
\* list that is not empty (one entity each); the other lists are empty.
Configurations == {c \in SUBSET SourceSet : Cardinality(c) <= 2}

VARIABLES entry_data, _prev_totals, _seq, returned, calls, cur_in, pre_totals, gap, tele, exposed, twin,
          today, disk, _data, _data_shape, _loaded, last_op, steps,
          tasks, _last_snapshot_date, listeners, answer

engine_vars == <<entry_data, _prev_totals, _seq, returned, calls, cur_in, pre_totals, gap, tele>>
store_vars == <<today, disk, _data, _data_shape, _loaded, last_op, steps>>

task_vars == <<tasks, _last_snapshot_date, listeners>>

vars == <<engine_vars, exposed, twin, store_vars, task_vars, answer>>

\* ------------------------------------------------------------ pure helpers
RECURSIVE SumSeq(_)
SumSeq(q) == IF q = <<>> THEN 0 ELSE q[1] + SumSeq(Tail(q))

\* _sum_energy_kwh_strict over the per-entity results of
\* _read_energy_total_kwh: no entities -> 0.0; any entity None -> None;
\* otherwise the rounded sum.
_sum_energy_kwh_strict(vals) ==
    IF vals = <<>> THEN Some(0)
    ELSE IF \E i \in 1..Len(vals) : vals[i] = None THEN None
    ELSE Some(SumSeq([i \in 1..Len(vals) |-> vals[i][1]]))

\* _read_float_safe: a state that is absent, unknown, unavailable, empty or
\* not a number reads as 0.0
_read_float_safe(st) == IF st = None THEN 0 ELSE st[1]

\* mutant: the monotonic check is missing
_delta_or_invalid_no_monotonic(cur, prev) ==
    LET d == cur - prev
    IN  IF d > _max_kwh_per_change THEN [d |-> 0, r |-> "spike_detected"]
        ELSE [d |-> d, r |-> NoReason]

\* mutant: the spike guard is missing
_delta_or_invalid_no_spike(cur, prev) ==
    LET d == cur - prev
    IN  IF d < 0 THEN [d |-> 0, r |-> "negative_delta"]
        ELSE [d |-> d, r |-> NoReason]

\* mutant: the spike test is not strict
_delta_or_invalid_geq(cur, prev) ==
    LET d == cur - prev
    IN  IF d < 0 THEN [d |-> 0, r |-> "negative_delta"]
        ELSE IF d >= _max_kwh_per_change THEN [d |-> 0, r |-> "spike_detected"]
        ELSE [d |-> d, r |-> NoReason]

\* _delta_or_invalid: (delta, invalid reason if any)
_delta_or_invalid(cur, prev) ==
    LET d == cur - prev
    IN  IF d < 0 THEN [d |-> 0, r |-> "negative_delta"]
        ELSE IF d > _max_kwh_per_change THEN [d |-> 0, r |-> "spike_detected"]
        ELSE [d |-> d, r |-> NoReason]

\* mutant: the last rejected source decides the reason
invalid_reason_last(rs) ==
    IF \A i \in 1..Len(rs) : rs[i] = NoReason THEN NoReason
    ELSE rs[CHOOSE i \in 1..Len(rs) : rs[i] # NoReason /\ \A j \in (i+1)..Len(rs) : rs[j] = NoReason]

\* next((r for r in (rA, rB, rC, rD, rE) if r is not None), None)
invalid_reason(rs) ==
    IF \A i \in 1..Len(rs) : rs[i] = NoReason THEN NoReason
    ELSE rs[CHOOSE i \in 1..Len(rs) : rs[i] # NoReason /\ \A j \in 1..(i-1) : rs[j] = NoReason]

\* the dict returned to the caller (updated_at and is_weekly_trigger are
\* wall-clock values and are left out)
Result(totals, deltas, seq) == [totals |-> totals, deltas |-> deltas, seq |-> seq]

\* what one branch of _async_update_data leaves behind
Outcome(prev, seq, result) == [prev_totals |-> prev, seq |-> seq, result |-> result]

\* ------------------------------------------- branches of _async_update_data
\* mutant: the fabricated zero totals are stored as the baseline
MissingInput_stores_baseline(prev, seq, co2) ==
    LET totals == [(IF prev # None THEN prev[1] ELSE EnergyTotals) EXCEPT !.co2_intensity_g_per_kwh = co2]
    IN  Outcome(Some(totals), seq + 1, Result(totals, EnergyDeltas(FALSE, "missing_input"), seq + 1))

\* mutant: the carbon intensity of the reported totals is not refreshed
MissingInput_stale_co2(prev, seq, co2) ==
    LET totals == IF prev # None THEN prev[1] ELSE EnergyTotals
    IN  Outcome(prev, seq + 1, Result(totals, EnergyDeltas(FALSE, "missing_input"), seq + 1))

\* mutant: the baseline is cleared when a source is unreadable
MissingInput_drops_baseline(prev, seq, co2) ==
    LET totals == [(IF prev # None THEN prev[1] ELSE EnergyTotals) EXCEPT !.co2_intensity_g_per_kwh = co2]
    IN  Outcome(None, seq + 1, Result(totals, EnergyDeltas(FALSE, "missing_input"), seq + 1))

\* some source is None: `totals = self._prev_totals or EnergyTotals()` is the
\* baseline object itself when there is one, so writing the carbon intensity
\* into it writes it into the baseline; the fresh EnergyTotals() is not stored.
MissingInput(prev, seq, co2) ==
    LET totals == [(IF prev # None THEN prev[1] ELSE EnergyTotals) EXCEPT !.co2_intensity_g_per_kwh = co2]
    IN  Outcome(IF prev # None THEN Some(totals) ELSE None,
                seq + 1,
                Result(totals, EnergyDeltas(FALSE, "missing_input"), seq + 1))

\* mutant: the baseline is not established
FirstRun_no_baseline(totals, seq) ==
    Outcome(None, seq + 1, Result(totals, EnergyDeltas(FALSE, "initial"), seq + 1))

\* first run: baseline only
FirstRun(totals, seq) ==
    Outcome(Some(totals), seq + 1, Result(totals, EnergyDeltas(FALSE, "initial"), seq + 1))

\* mutant: the sequence counter is not incremented on this branch
Rejected_no_seq(prev, totals, seq, reason) ==
    Outcome(Some(totals), seq, Result(totals, EnergyDeltas(FALSE, reason), seq))

\* mutant: the baseline is not re-armed
Rejected_keeps_baseline(prev, totals, seq, reason) ==
    Outcome(prev, seq + 1, Result(totals, EnergyDeltas(FALSE, reason), seq + 1))

\* some delta rejected: mark invalid and re-baseline to the current totals
Rejected(prev, totals, seq, reason) ==
    Outcome(Some(totals), seq + 1, Result(totals, EnergyDeltas(FALSE, reason), seq + 1))

\* mutant: dB is assigned from dA
AllGood_dB_from_dA(totals, seq, d) ==
    Outcome(Some(totals), seq + 1,
            Result(totals,
                   [dA_imported_kwh |-> d[1], dB_exported_kwh |-> d[1], dC_produced_kwh |-> d[3],
                    dD_charge_kwh |-> d[4], dE_discharge_kwh |-> d[5],
                    valid |-> TRUE, reason |-> NoReason],
                   seq + 1))

\* mutant: a carbon intensity of 0.0 invalidates the interval
AllGood_needs_co2(totals, seq, d) ==
    IF totals.co2_intensity_g_per_kwh = 0
    THEN Outcome(Some(totals), seq + 1, Result(totals, EnergyDeltas(FALSE, "missing_input"), seq + 1))
    ELSE Outcome(Some(totals), seq + 1,
                 Result(totals,
                        [dA_imported_kwh |-> d[1], dB_exported_kwh |-> d[2], dC_produced_kwh |-> d[3],
                         dD_charge_kwh |-> d[4], dE_discharge_kwh |-> d[5],
                         valid |-> TRUE, reason |-> NoReason],
                        seq + 1))

\* all good: report the five deltas, update the baseline
\* mutant: a valid cycle stores a baseline whose imported energy is zero
AllGood_zero_import_baseline(totals, seq, d) ==
    Outcome(Some([totals EXCEPT !.imported_kwh = 0]), seq + 1,
            Result(totals,
                   [dA_imported_kwh |-> d[1], dB_exported_kwh |-> d[2], dC_produced_kwh |-> d[3],
                    dD_charge_kwh |-> d[4], dE_discharge_kwh |-> d[5],
                    valid |-> TRUE, reason |-> NoReason],
                   seq + 1))

AllGood(totals, seq, d) ==
    Outcome(Some(totals), seq + 1,
            Result(totals,
                   [dA_imported_kwh |-> d[1], dB_exported_kwh |-> d[2], dC_produced_kwh |-> d[3],
                    dD_charge_kwh |-> d[4], dE_discharge_kwh |-> d[5],
                    valid |-> TRUE, reason |-> NoReason],
                   seq + 1))

\* _async_update_data up to its returned dict. ents[s] is the sequence of
\* per-entity readings of source s, co2 is _read_float_safe(co2_entity).
_async_update_data(prev, seq, ents, co2) ==
    LET cur == [s \in SourceSet |-> _sum_energy_kwh_strict(ents[s])]
    IN  IF \E s \in SourceSet : cur[s] = None
        THEN MissingInput(prev, seq, co2)
        ELSE
          LET totals == [imported_kwh |-> cur["imported_kwh"][1],
                         exported_kwh |-> cur["exported_kwh"][1],
                         produced_kwh |-> cur["produced_kwh"][1],
                         battery_charge_kwh |-> cur["battery_charge_kwh"][1],
                         battery_discharge_kwh |-> cur["battery_discharge_kwh"][1],
                         co2_intensity_g_per_kwh |-> co2]
          IN  IF prev = None
              THEN FirstRun(totals, seq)
              ELSE
                LET x == [i \in 1..Len(Sources) |-> _delta_or_invalid(totals[Sources[i]], prev[1][Sources[i]])]
                    reason == invalid_reason([i \in 1..Len(Sources) |-> x[i].r])
                IN  IF reason # NoReason
                    THEN Rejected(prev, totals, seq, reason)
                    ELSE AllGood(totals, seq, [i \in 1..Len(Sources) |-> x[i].d])

\* ------------------------------------------------------ history variables
\* calls      number of invocations of _async_update_data so far
\* cur_in     the inputs of the last invocation: the five strict sums and
\*            the carbon-intensity reading
\* pre_totals self._prev_totals as it was when the last invocation began
\* gap        phase "in": the last invocation had an unreadable source;
\*            phase "after": it was the first readable one after such a run;
\*            base: self._prev_totals as it was when that run began
\* tele       clean: every invocation so far had all sources readable and
\*            every per-source change from one invocation to the next was
\*            within [0, ceiling]; t0: the totals of the first invocation;
\*            sum: per source, the sum of the deltas returned since

Zeros == [s \in SourceSet |-> 0]
Readable(cur) == \A s \in SourceSet : cur[s] # None
Cumulative(totals) == [s \in SourceSet |-> totals[s]]

GapNext(cur) ==
    IF ~Readable(cur)
    THEN [phase |-> "in", base |-> IF gap.phase = "in" THEN gap.base ELSE _prev_totals]
    ELSE IF gap.phase = "in" THEN [phase |-> "after", base |-> gap.base]
    ELSE [phase |-> "none", base |-> None]

TeleNext(cur, deltas) ==
    IF calls = 0 /\ Readable(cur)
    THEN [clean |-> TRUE, t0 |-> [s \in SourceSet |-> cur[s][1]], sum |-> [s \in SourceSet |-> deltas[DeltaField(s)]]]
    ELSE IF /\ calls > 0
            /\ tele.clean
            /\ Readable(cur)
            /\ \A s \in SourceSet : cur[s][1] - cur_in[1].cur[s][1] \in 0.._max_kwh_per_change
    THEN [tele EXCEPT !.sum = [s \in SourceSet |-> tele.sum[s] + deltas[DeltaField(s)]]]
    ELSE [clean |-> FALSE, t0 |-> Zeros, sum |-> Zeros]

\* ------------------------------------------------------- object identity
\* The "totals" of a returned dict is the object self._prev_totals refers to
\* when the invocation returns, whenever there is a baseline then: the
\* missing_input branch returns the baseline object itself, the other
\* branches store the object they return.
ResultSharesBaseline(prev_after) == prev_after # None

\* What an EnergyTotals object obj holds after one more invocation: the
\* missing_input branch writes the carbon intensity into the baseline object;
\* no other branch writes into an existing object.
ObjectAfterCall(obj, is_baseline, cur, co2) ==
    IF is_baseline /\ ~Readable(cur)
    THEN [obj EXCEPT !.co2_intensity_g_per_kwh = co2]
    ELSE obj

\* ---------------------------------------------------------- the metrics store
\* Dates are ISO strings of fixed width, which compare as the days they name:
\* a date is the number of its day. The empty string, which a record without a
\* date is compared as, is below every date.
RETENTION_DAYS == 90

NoDate == 0

FirstDay == RETENTION_DAYS + 10

\* the file: absent, not a readable JSON document, or a document
Absent == [kind |-> "absent", daily_snapshots |-> <<>>]

Corrupt == [kind |-> "corrupt", daily_snapshots |-> <<>>]

Doc(snaps) == [kind |-> "doc", daily_snapshots |-> snaps]

\* a JSON document that is an object without a daily_snapshots list, or that
\* is not an object
NoList == [kind |-> "no_list", daily_snapshots |-> <<>>]

NotObject == [kind |-> "not_object", daily_snapshots |-> <<>>]

\* how a write of the file ends: written, open() failed (the file is as it
\* was), or the write failed after open() truncated the file
IoOutcomes == {"ok", "open_failed", "write_failed"}

Snapshot(date, day) == [date |-> date, net_use |-> day[1], production |-> day[2]]

\* what the day sensors read as (net use, production)
DayReadings == {<<0, 0>>, <<1, 0>>, <<0, 1>>}

\* `not snapshot_date`
HasDate(snapshot) == snapshot.date # NoDate

\* mutant: the record of the same date is not removed
Without_keeps_all(snaps, date) == snaps

\* the list without the records of one date
Without(snaps, date) == SelectSeq(snaps, LAMBDA s : s.date # date)

InsertByDate(sorted, s) ==
    LET k == Cardinality({i \in 1..Len(sorted) : sorted[i].date >= s.date})
    IN  SubSeq(sorted, 1, k) \o <<s>> \o SubSeq(sorted, k + 1, Len(sorted))

RECURSIVE SortNewestFirst(_)
\* list.sort(key=date, reverse=True): stable, newest first
SortNewestFirst(snaps) ==
    IF snaps = <<>> THEN <<>>
    ELSE InsertByDate(SortNewestFirst(SubSeq(snaps, 1, Len(snaps) - 1)), snaps[Len(snaps)])

\* mutant: a failed write is not caught
async_save_unguarded(snaps, loaded, file, io) ==
    IF ~loaded THEN [disk |-> file, raised |-> FALSE]
    ELSE [disk |-> IF io = "ok" THEN Doc(snaps) ELSE IF io = "write_failed" THEN Corrupt ELSE file,
          raised |-> io # "ok"]

\* mutant: the file is written whether the store is loaded or not
async_save_before_load(snaps, loaded, file, io) ==
    [disk |-> IF io = "ok" THEN Doc(snaps) ELSE IF io = "write_failed" THEN Corrupt ELSE file,
     raised |-> FALSE]

\* async_save: nothing before the store is loaded; a failed write is logged
async_save(snaps, loaded, file, io) ==
    IF ~loaded THEN [disk |-> file, raised |-> FALSE]
    ELSE [disk |-> IF io = "ok" THEN Doc(snaps) ELSE IF io = "write_failed" THEN Corrupt ELSE file,
          raised |-> FALSE]

\* mutant: a record dated exactly at the cutoff is dropped
_cleanup_old_snapshots_strict(snaps, loaded, file, now, io) ==
    LET kept == SelectSeq(snaps, LAMBDA s : s.date > now - RETENTION_DAYS)
        sv   == IF Len(kept) < Len(snaps) THEN async_save(kept, loaded, file, io)
                ELSE [disk |-> file, raised |-> FALSE]
    IN  [data |-> kept, loaded |-> loaded, disk |-> sv.disk, raised |-> sv.raised, shape |-> "ok"]

\* _cleanup_old_snapshots: keep the records dated at or after the cutoff, save
\* when a record was removed
_cleanup_old_snapshots(snaps, loaded, file, now, io) ==
    LET kept == SelectSeq(snaps, LAMBDA s : s.date >= now - RETENTION_DAYS)
        sv   == IF Len(kept) < Len(snaps) THEN async_save(kept, loaded, file, io)
                ELSE [disk |-> file, raised |-> FALSE]
    IN  [data |-> kept, loaded |-> loaded, disk |-> sv.disk, raised |-> sv.raised, shape |-> "ok"]

\* async_load: read the file if it exists (an unreadable one gives the empty
\* collection), mark loaded, clean up. The clean-up is outside the try: on a
\* JSON document without a daily_snapshots list it raises, with _data holding
\* that document.
async_load(snaps, file, now, io) ==
    IF file.kind \in {"no_list", "not_object"}
    THEN [data |-> <<>>, loaded |-> TRUE, disk |-> file, raised |-> TRUE, shape |-> file.kind]
    ELSE LET read == CASE file.kind = "doc"     -> file.daily_snapshots
                       [] file.kind = "absent"  -> snaps
                       [] file.kind = "corrupt" -> <<>>
         IN  _cleanup_old_snapshots(read, TRUE, file, now, io)

\* mutant: a date that is already stored keeps its record
add_daily_snapshot_first_wins(snaps, loaded, file, now, snapshot, io) ==
    LET l == IF loaded THEN [data |-> snaps, loaded |-> TRUE, disk |-> file, raised |-> FALSE, shape |-> "ok"]
             ELSE async_load(snaps, file, now, io)
    IN  IF l.raised \/ ~HasDate(snapshot) \/ (\E i \in 1..Len(l.data) : l.data[i].date = snapshot.date)
        THEN l
        ELSE LET d  == SortNewestFirst(Append(Without(l.data, snapshot.date), snapshot))
                 sv == async_save(d, TRUE, l.disk, io)
             IN  [data |-> d, loaded |-> TRUE, disk |-> sv.disk, raised |-> sv.raised, shape |-> "ok"]

\* mutant: a snapshot without a date is stored like any other
add_daily_snapshot_any_date(snaps, loaded, file, now, snapshot, io) ==
    LET l == IF loaded THEN [data |-> snaps, loaded |-> TRUE, disk |-> file, raised |-> FALSE, shape |-> "ok"]
             ELSE async_load(snaps, file, now, io)
    IN  IF l.raised
        THEN l
        ELSE LET d  == SortNewestFirst(Append(Without(l.data, snapshot.date), snapshot))
                 sv == async_save(d, TRUE, l.disk, io)
             IN  [data |-> d, loaded |-> TRUE, disk |-> sv.disk, raised |-> sv.raised, shape |-> "ok"]

\* add_daily_snapshot: load if needed; ignore a snapshot without a date; else
\* replace the record of that date, sort newest first, save
add_daily_snapshot(snaps, loaded, file, now, snapshot, io) ==
    LET l == IF loaded THEN [data |-> snaps, loaded |-> TRUE, disk |-> file, raised |-> FALSE, shape |-> "ok"]
             ELSE async_load(snaps, file, now, io)
    IN  IF l.raised \/ ~HasDate(snapshot)
        THEN l
        ELSE LET d  == SortNewestFirst(Append(Without(l.data, snapshot.date), snapshot))
                 sv == async_save(d, TRUE, l.disk, io)
             IN  [data |-> d, loaded |-> TRUE, disk |-> sv.disk, raised |-> sv.raised, shape |-> "ok"]

\* ------------------------------------------------------ queries of the store
\* A record of a file this program did not write may lack a metric (the key is
\* not in the record's domain) or carry a value that is not a number (the key
\* is in the record's text field).
IsNumber(s, key) == ~("text" \in DOMAIN s /\ key \in s.text)

\* mutant: a record dated exactly at the cutoff is left out
Relevant_after_cutoff(snaps, now, key, days) ==
    SelectSeq(snaps, LAMBDA s : s.date > now - days /\ key \in DOMAIN s)

\* relevant_snapshots: dated at or after the cutoff and carrying the key
Relevant(snaps, now, key, days) ==
    SelectSeq(snaps, LAMBDA s : s.date >= now - days /\ key \in DOMAIN s)

\* values: the numbers among the relevant records' values
Values(relevant, key) ==
    LET numeric == SelectSeq(relevant, LAMBDA s : IsNumber(s, key))
    IN  [i \in 1..Len(numeric) |-> numeric[i][key]]

SeqMin(q) == CHOOSE v \in {q[i] : i \in 1..Len(q)} : \A i \in 1..Len(q) : v <= q[i]

SeqMax(q) == CHOOSE v \in {q[i] : i \in 1..Len(q)} : \A i \in 1..Len(q) : v >= q[i]

\* a float that is a quotient of two integers
Ratio(num, den) == [num |-> num, den |-> den]

Zero == Ratio(0, 1)

MIN_SENTINEL == 999999

\* get_average: sum(values) / len(values), 0.0 without values or before load
get_average(snaps, loaded, now, key, days) ==
    IF ~loaded THEN Zero
    ELSE LET values == Values(Relevant(snaps, now, key, days), key)
         IN  IF values = <<>> THEN Zero ELSE Ratio(SumSeq(values), Len(values))

\* mutant: the minimum of nothing is 0
get_min_zero(snaps, loaded, now, key, days) ==
    IF ~loaded THEN 0
    ELSE LET values == Values(Relevant(snaps, now, key, days), key)
         IN  IF values = <<>> THEN 0 ELSE SeqMin(values)

\* get_min: min(values), 999999 without values or before load
get_min(snaps, loaded, now, key, days) ==
    IF ~loaded THEN MIN_SENTINEL
    ELSE LET values == Values(Relevant(snaps, now, key, days), key)
         IN  IF values = <<>> THEN MIN_SENTINEL ELSE SeqMin(values)

\* get_max: max(values), 0.0 without values or before load
get_max(snaps, loaded, now, key, days) ==
    IF ~loaded THEN 0
    ELSE LET values == Values(Relevant(snaps, now, key, days), key)
         IN  IF values = <<>> THEN 0 ELSE SeqMax(values)

\* what a value of a record is: a number or something else
Number(v) == [number |-> TRUE, value |-> v]

NotANumber == [number |-> FALSE, value |-> 0]

\* mutant: the first record that carries the key, of whatever date
get_today_value_newest(snaps, loaded, now, key) ==
    LET hits == SelectSeq(snaps, LAMBDA s : key \in DOMAIN s)
    IN  IF ~loaded \/ hits = <<>> THEN Number(0)
        ELSE IF IsNumber(hits[1], key) THEN Number(hits[1][key]) ELSE NotANumber

\* get_today_value: the value, as it is, of the first record of today that
\* carries the key; 0.0 without one or before load
get_today_value(snaps, loaded, now, key) ==
    LET hits == SelectSeq(snaps, LAMBDA s : s.date = now /\ key \in DOMAIN s)
    IN  IF ~loaded \/ hits = <<>> THEN Number(0)
        ELSE IF IsNumber(hits[1], key) THEN Number(hits[1][key]) ELSE NotANumber

HOUR == 3600

critical_sensors ==
    {"sensor.ec_production_day", "sensor.ec_consumption_day", "sensor.ec_import_day", "sensor.ec_export_day"}

\* mutant: one hour is already a gap
has_data_gap_at_one_hour(sensor_states) ==
    \E id \in critical_sensors \cap DOMAIN sensor_states :
      /\ sensor_states[id].state \in {"unavailable", "unknown"}
      /\ sensor_states[id].last_changed # None
      /\ sensor_states[id].last_changed[1] >= HOUR

\* has_data_gap: a critical sensor among the states given is unavailable or
\* unknown and changed last more than an hour ago (last_changed is the number
\* of seconds since, None without a timestamp)
has_data_gap(sensor_states) ==
    \E id \in critical_sensors \cap DOMAIN sensor_states :
      /\ sensor_states[id].state \in {"unavailable", "unknown"}
      /\ sensor_states[id].last_changed # None
      /\ sensor_states[id].last_changed[1] > HOUR

\* get_notification_data: the empty dict before load, else the fifteen keys.
\* coordinator_data is its is_weekly_trigger entry: None without the key.
get_notification_data(snaps, loaded, now, coordinator_data, sensor_states) ==
    IF ~loaded THEN <<>>
    ELSE [has_data_gap           |-> has_data_gap(sensor_states),
          ss_today               |-> get_today_value(snaps, loaded, now, "self_sufficiency"),
          net_use_today          |-> get_today_value(snaps, loaded, now, "net_use"),
          night_use_today        |-> get_today_value(snaps, loaded, now, "night_use"),
          emissions_today        |-> get_today_value(snaps, loaded, now, "emissions"),
          net_use_7d_avg         |-> get_average(snaps, loaded, now, "net_use", 7),
          night_use_7d_avg       |-> get_average(snaps, loaded, now, "night_use", 7),
          export_7d_avg          |-> get_average(snaps, loaded, now, "export", 7),
          production_7d_avg      |-> get_average(snaps, loaded, now, "production", 7),
          net_use_30d_avg        |-> get_average(snaps, loaded, now, "net_use", 30),
          net_use_90d_avg        |-> get_average(snaps, loaded, now, "net_use", 90),
          ss_max_last_30d        |-> get_max(snaps, loaded, now, "self_sufficiency", 30),
          emissions_min_last_30d |-> get_min(snaps, loaded, now, "emissions", 30),
          net_use_min_last_30d   |-> get_min(snaps, loaded, now, "net_use", 30),
          is_weekly_trigger      |-> IF coordinator_data = None THEN FALSE ELSE coordinator_data[1]]

\* no query has been made
NoAnswer == [op |-> "none"]

MaxUpserts == 2

MaxAdvances == 2

MaxRestarts == 1

StoreInit(files) ==
    /\ today = FirstDay
    /\ disk \in files
    /\ _data = <<>>
    /\ _data_shape = "ok"
    /\ _loaded = FALSE
    /\ last_op = [op |-> "none", arg |-> None, file |-> Absent, repeat |-> FALSE, replaced |-> FALSE]
    /\ steps = [upsert |-> 0, advance |-> 0, restart |-> 0]

MaxTasks == 3

TaskIds == 1..MaxTasks

\* a coordinator whose setup has not begun: no listener registered, no
\* remover called, the list of state listeners empty, no event seen
NoListeners ==
    [phase |-> "new",
     state_change |-> [registered |-> FALSE, removed |-> 0],
     midnight |-> [registered |-> FALSE, removed |-> 0],
     _state_listeners |-> 0,
     last_event |-> None]

\* no invocation has been created; no daily snapshot has been taken
TaskInit ==
    /\ tasks = [t \in TaskIds |-> [pc |-> "none", seen |-> None, read |-> None, left |-> None, result |-> None]]
    /\ _last_snapshot_date = None
    /\ listeners = NoListeners

\* ------------------------------------------------------------------ state
\* entry_data: the sources whose entity list in entry.data is not empty (one
\* entity each); the coordinator starts with no baseline and seq 0.
EngineInit(configurations) ==
    /\ entry_data \in configurations
    /\ _prev_totals = None
    /\ _seq = 0
    /\ returned = None
    /\ calls = 0
    /\ cur_in = None
    /\ pre_totals = None
    /\ gap = [phase |-> "none", base |-> None]
    /\ tele = [clean |-> FALSE, t0 |-> Zeros, sum |-> Zeros]

\* exposed: the result of the invocation before the last one, as a caller
\* that kept it holds it: result is the dict as it was returned, totals_now
\* is what its "totals" object holds now.
\* twin: a second coordinator that is given the same cumulative readings and
\* its own carbon-intensity readings.
\* The state after construction: a coordinator over one of the configurations
\* beside its twin, a store over one of the files, no result exposed, no
\* question answered.
InitOf(configurations, files) ==
    /\ EngineInit(configurations)
    /\ exposed = None
    /\ twin = [prev_totals |-> None, seq |-> 0, result |-> None]
    /\ StoreInit(files)
    /\ TaskInit
    /\ answer = NoAnswer

Init == InitOf(Configurations, {Absent})

\* the per-entity readings of each source: one entity per configured source
Ents(rd) == [s \in SourceSet |-> IF s \in entry_data THEN <<rd[s]>> ELSE <<>>]

\* one invocation of _async_update_data with the entity states it reads, as
\* it acts on the coordinator
InvokeFrom(prev, ents, co2) ==
    \E cur \in {[s \in SourceSet |-> _sum_energy_kwh_strict(ents[s])]} :
    \E o \in {_async_update_data(prev, _seq, ents, co2)} :
      /\ _prev_totals' = o.prev_totals
      /\ _seq' = o.seq
      /\ returned' = Some(o.result)
      /\ calls' = calls + 1
      /\ cur_in' = Some([cur |-> cur, co2 |-> co2])
      /\ pre_totals' = prev
      /\ gap' = GapNext(cur)
      /\ tele' = TeleNext(cur, o.result.deltas)
      /\ UNCHANGED entry_data

Invoke(ents, co2) == InvokeFrom(_prev_totals, ents, co2)

\* one invocation of _async_update_data (async_refresh at setup, or the task
\* spawned by _handle_state_change), with the entity states it reads
Compute ==
    /\ calls < MaxCalls
    /\ \E rd \in [entry_data -> EntityReadings], co2 \in Co2Readings :
         Invoke(Ents(rd), co2)
    /\ UNCHANGED <<exposed, twin, store_vars, task_vars, answer>>

Next == Compute

Spec == Init /\ [][Next]_vars

\* ------------------------------------------------ a caller keeping results
\* entry.data with at most one source configured
SmallConfigurations == {c \in SUBSET SourceSet : Cardinality(c) <= 1}

\* an invocation whose caller still holds the dict the previous one returned
ComputeHeld ==
    /\ calls < MaxCalls
    /\ \E rd \in [entry_data -> EntityReadings], co2 \in Co2Readings :
         /\ Invoke(Ents(rd), co2)
         /\ exposed' = IF returned = None THEN None
                       ELSE Some([result |-> returned[1],
                                  totals_now |-> ObjectAfterCall(returned[1].totals,
                                                                 ResultSharesBaseline(_prev_totals),
                                                                 [s \in SourceSet |-> _sum_energy_kwh_strict(Ents(rd)[s])],
                                                                 co2)])
    /\ UNCHANGED <<twin, store_vars, task_vars, answer>>

NextCaller == ComputeHeld

SpecCaller == InitOf(SmallConfigurations, {Absent}) /\ [][NextCaller]_vars

\* ------------------------------------------- two runs, one carbon intensity
\* what the carbon-intensity entity can read as: None (absent, unknown,
\* unavailable or not a number) or a value
Co2States == {None} \cup {Some(v) : v \in Co2Readings}

\* the same entity states read by both coordinators, except for the
\* carbon-intensity entity
ComputePair ==
    /\ calls < MaxCalls
    /\ \E rd \in [entry_data -> EntityReadings], st \in Co2States, st2 \in Co2States :
         /\ Invoke(Ents(rd), _read_float_safe(st))
         /\ \E o \in {_async_update_data(twin.prev_totals, twin.seq, Ents(rd), _read_float_safe(st2))} :
              twin' = [prev_totals |-> o.prev_totals, seq |-> o.seq, result |-> Some(o.result)]
    /\ UNCHANGED <<exposed, store_vars, task_vars, answer>>

NextPair == ComputePair

SpecPair == InitOf(SmallConfigurations, {Absent}) /\ [][NextPair]_vars

\* --------------------------------------------------- operations on the store
Apply(o, op, arg) ==
    /\ _data' = o.data
    /\ _data_shape' = o.shape
    /\ _loaded' = o.loaded
    /\ disk' = o.disk
    /\ last_op' = [op |-> IF ~o.raised THEN op ELSE IF op = "load" THEN "load_raised" ELSE "upsert_raised",
                   arg |-> arg,
                   file |-> IF op = "load" THEN disk ELSE Absent,
                   repeat |-> op = "upsert" /\ last_op.op = "upsert" /\ last_op.arg = arg,
                   replaced |-> /\ op = "upsert"
                                /\ _loaded
                                /\ \E i \in 1..Len(_data) : _data[i].date = arg[1].date /\ _data[i] # arg[1]]

\* async_setup_metrics_store
Load ==
    /\ ~_loaded
    /\ \E io \in IoOutcomes : Apply(async_load(_data, disk, today, io), "load", None)
    /\ UNCHANGED <<today, steps>>

\* add_daily_snapshot, on a store whose setup has not failed
Upsert ==
    /\ steps.upsert < MaxUpserts
    /\ _data_shape = "ok"
    /\ \E date \in {NoDate, today - 1, today}, day \in DayReadings \ {<<0, 0>>}, io \in IoOutcomes :
         Apply(add_daily_snapshot(_data, _loaded, disk, today, Snapshot(date, day), io),
               "upsert", Some(Snapshot(date, day)))
    /\ steps' = [steps EXCEPT !.upsert = @ + 1]
    /\ UNCHANGED today

DayAdvance ==
    /\ steps.advance < MaxAdvances
    /\ \E n \in {1, RETENTION_DAYS} : today' = today + n
    /\ last_op' = [op |-> "advance", arg |-> None, file |-> Absent, repeat |-> FALSE, replaced |-> FALSE]
    /\ steps' = [steps EXCEPT !.advance = @ + 1]
    /\ UNCHANGED <<disk, _data, _data_shape, _loaded>>

\* a new store object over the same file
Restart ==
    /\ steps.restart < MaxRestarts
    /\ _data' = <<>>
    /\ _data_shape' = "ok"
    /\ _loaded' = FALSE
    /\ last_op' = [op |-> "restart", arg |-> None, file |-> Absent, repeat |-> FALSE, replaced |-> FALSE]
    /\ steps' = [steps EXCEPT !.restart = @ + 1]
    /\ UNCHANGED <<today, disk>>

EngineIdle == UNCHANGED <<engine_vars, exposed, twin, task_vars>>

OtherIdle == EngineIdle /\ UNCHANGED answer

NextStore ==
    \/ Load /\ OtherIdle
    \/ Upsert /\ OtherIdle
    \/ DayAdvance /\ OtherIdle
    \/ Restart /\ OtherIdle

SpecStore == InitOf({{}}, {Absent, Corrupt}) /\ [][NextStore]_vars

\* files this program did not write: records without a date, records in any
\* order, a list with the oldest record first, documents that are not the
\* store's object
ForeignFiles ==
    LET dates == {NoDate, FirstDay - RETENTION_DAYS - 1, FirstDay - RETENTION_DAYS}
        recs == {Snapshot(d, <<1, 0>>) : d \in dates}
        lists == UNION {[1..n -> recs] : n \in 0..Cardinality(recs)}
        oldest_first == Doc(<<Snapshot(FirstDay - 1, <<1, 0>>), Snapshot(FirstDay, <<1, 0>>)>>)
    IN  {Doc(s) : s \in {l \in lists : \A i, j \in DOMAIN l : i # j => l[i] # l[j]}}
          \cup {oldest_first, NoList, NotObject}

SpecStoreForeign == InitOf({{}}, ForeignFiles) /\ [][NextStore]_vars

\* ------------------------------------------------------------ SpecQueries
\* The queries of a store over a file of records that carry a net_use number,
\* lack net_use, or carry a net_use that is not a number.
QueryKeys == {"net_use", "production"}

Windows == {7, 30, 90}

RecordForms(date) ==
    {Snapshot(date, <<1, 2>>), Snapshot(date, <<3, 2>>), [date |-> date, production |-> 2],
     [date |-> date, net_use |-> 0, production |-> 2, text |-> {"net_use"}]}

\* the records of one date of a file: none or one
Entry(forms) == {<<>>} \cup {<<r>> : r \in forms}

QueryFiles ==
    {Doc(today_ \o week \o before \o month) :
       today_ \in Entry({Snapshot(FirstDay, <<3, 2>>), [date |-> FirstDay, production |-> 2]}),
       week \in Entry(RecordForms(FirstDay - 7)),
       before \in Entry({Snapshot(FirstDay - 8, <<3, 2>>), [date |-> FirstDay - 8, net_use |-> 0, production |-> 2, text |-> {"net_use"}]}),
       month \in Entry({Snapshot(FirstDay - 30, <<1, 2>>)})}

Ask(op, key, days, result) ==
    /\ _data_shape = "ok"
    /\ answer' = [op |-> op, key |-> key, days |-> days, result |-> result]
    /\ UNCHANGED store_vars

GetAverage ==
    \E key \in QueryKeys, days \in Windows :
      Ask("get_average", key, days, get_average(_data, _loaded, today, key, days))

GetMin ==
    \E key \in QueryKeys, days \in Windows :
      Ask("get_min", key, days, get_min(_data, _loaded, today, key, days))

GetMax ==
    \E key \in QueryKeys, days \in Windows :
      Ask("get_max", key, days, get_max(_data, _loaded, today, key, days))

GetTodayValue ==
    \E key \in QueryKeys :
      Ask("get_today_value", key, 0, get_today_value(_data, _loaded, today, key))

\* the caller's states: no sensor, or a production sensor gone for over an hour
GetNotificationData ==
    \E coordinator_data \in {None, Some(TRUE), Some(FALSE)},
       sensor_states \in {<<>>, [id \in {"sensor.ec_production_day"} |->
                                  [state |-> "unavailable", last_changed |-> Some(HOUR + 1)]]} :
      Ask("get_notification_data", coordinator_data, sensor_states,
          get_notification_data(_data, _loaded, today, coordinator_data, sensor_states))

Forget == answer' = NoAnswer

NextQueries ==
    \/ Load /\ EngineIdle /\ Forget
    \/ DayAdvance /\ EngineIdle /\ Forget
    \/ GetAverage /\ EngineIdle
    \/ GetMin /\ EngineIdle
    \/ GetMax /\ EngineIdle
    \/ GetTodayValue /\ EngineIdle
    \/ GetNotificationData /\ EngineIdle

SpecQueries == InitOf({{}}, QueryFiles) /\ [][NextQueries]_vars

\* --------------------------------------------------------------- SpecGate
\* A store before and after its load over a file with a record of today:
\* the queries and a save called on it directly.
\* async_save, called on the store
Save ==
    /\ _data_shape = "ok"
    /\ \E io \in IoOutcomes :
         \E sv \in {async_save(_data, _loaded, disk, io)} :
           /\ disk' = sv.disk
           /\ last_op' = [op |-> "save", arg |-> None, file |-> disk, repeat |-> FALSE, replaced |-> FALSE]
    /\ UNCHANGED <<today, _data, _data_shape, _loaded, steps>>

NextGate ==
    \/ Load /\ EngineIdle /\ Forget
    \/ Save /\ OtherIdle
    \/ GetAverage /\ EngineIdle
    \/ GetMin /\ EngineIdle
    \/ GetMax /\ EngineIdle
    \/ GetTodayValue /\ EngineIdle

SpecGate ==
    /\ InitOf({{}}, {Absent, Doc(<<Snapshot(FirstDay, <<3, 2>>), Snapshot(FirstDay - 7, <<1, 2>>)>>)})
    /\ [][NextGate]_vars

\* ---------------------------------------------------------------- SpecGap
\* the states of any critical sensors, with or without a sensor that is not
\* critical and has been unavailable for over an hour
SensorStateMaps ==
    LET other == [id \in {"sensor.ec_net_energy_use_day"} |-> [state |-> "unavailable", last_changed |-> Some(HOUR + 1)]]
        cases == {[state |-> "12.5", last_changed |-> Some(HOUR + 1)],
                  [state |-> "unavailable", last_changed |-> Some(HOUR)],
                  [state |-> "unavailable", last_changed |-> Some(HOUR + 1)],
                  [state |-> "unknown", last_changed |-> Some(HOUR + 1)],
                  [state |-> "unavailable", last_changed |-> None]}
        critical == UNION {[ids -> cases] : ids \in SUBSET critical_sensors}
    IN  critical \cup {c @@ other : c \in critical}

HasDataGap ==
    /\ \E sensor_states \in SensorStateMaps :
         answer' = [op |-> "has_data_gap", sensor_states |-> sensor_states, result |-> has_data_gap(sensor_states)]
    /\ UNCHANGED store_vars

NextGap == HasDataGap /\ EngineIdle

SpecGap == InitOf({{}}, {Absent}) /\ [][NextGap]_vars

\* ------------------------------------------------- invocations as tasks
\* An invocation runs without suspension from its first line to the await of
\* _maybe_create_daily_snapshot in the valid branch; the other branches return
\* without an await.

\* the state of an entity: absent, unknown or unavailable, a text that is not
\* a number, or a number (in millionths of its unit) with a unit
EntityStates ==
    {[kind |-> k, value |-> 0, unit |-> "kwh"] : k \in {"absent", "unavailable", "text"}}
      \cup {[kind |-> "number", value |-> v, unit |-> "kwh"] : v \in Readings}
      \cup {[kind |-> "number", value |-> v * 1000, unit |-> "wh"] : v \in {0, 1}}
      \cup {[kind |-> "number", value |-> 0, unit |-> "other"]}

\* mutant: a reading in Wh is taken as kWh
_read_energy_total_kwh_wh_as_kwh(st) ==
    IF st.kind \in {"absent", "unknown", "unavailable", "text"} THEN None
    ELSE IF st.unit = "wh" THEN Some(st.value)
    ELSE IF st.unit = "kwh" THEN Some(st.value)
    ELSE None

\* _read_energy_total_kwh: None unless the state is a number in Wh or kWh
_read_energy_total_kwh(st) ==
    IF st.kind \in {"absent", "unknown", "unavailable", "text"} THEN None
    ELSE IF st.unit = "wh" THEN Some(st.value \div 1000)
    ELSE IF st.unit = "kwh" THEN Some(st.value)
    ELSE None

\* mutant: a snapshot is built whatever the day sensors read
_build_daily_snapshot_always(now, day) == Some(Snapshot(now, day))

\* _build_daily_snapshot: no snapshot when net use and production are both 0.0
_build_daily_snapshot(now, day) ==
    IF day[1] = 0 /\ day[2] = 0 THEN None ELSE Some(Snapshot(now, day))

\* mutant: the date of the last snapshot is not looked at
_maybe_create_daily_snapshot_every_time(last, snaps, loaded, file, now, day, io) ==
    LET idle == [last |-> last, data |-> snaps, loaded |-> loaded, disk |-> file,
                 raised |-> FALSE, added |-> FALSE, shape |-> "ok"]
        s    == _build_daily_snapshot(now, day)
    IN  IF s = None THEN idle
        ELSE LET a == add_daily_snapshot(snaps, loaded, file, now, s[1], io)
             IN  [last |-> IF a.raised THEN last ELSE Some(now), data |-> a.data,
                  loaded |-> a.loaded, disk |-> a.disk, raised |-> a.raised, added |-> TRUE,
                  shape |-> a.shape]

\* _maybe_create_daily_snapshot: once per date, and only with a snapshot
_maybe_create_daily_snapshot(last, snaps, loaded, file, now, day, io) ==
    LET idle == [last |-> last, data |-> snaps, loaded |-> loaded, disk |-> file,
                 raised |-> FALSE, added |-> FALSE, shape |-> "ok"]
        s    == _build_daily_snapshot(now, day)
    IN  IF last = Some(now) \/ s = None THEN idle
        ELSE LET a == add_daily_snapshot(snaps, loaded, file, now, s[1], io)
             IN  [last |-> IF a.raised THEN last ELSE Some(now), data |-> a.data,
                  loaded |-> a.loaded, disk |-> a.disk, raised |-> a.raised, added |-> TRUE,
                  shape |-> a.shape]

\* mutant: the invocation works on the baseline its creator saw
BaselineRead_at_creation(t) == tasks[t].seen

\* the baseline an invocation reads: self._prev_totals when it runs
BaselineRead(t) == _prev_totals

\* _handle_state_change creates the task of an invocation
Spawn ==
    /\ _loaded
    /\ \E t \in TaskIds :
         /\ tasks[t].pc = "none"
         /\ \A u \in TaskIds : u < t => tasks[u].pc # "none"
         /\ tasks' = [tasks EXCEPT ![t].pc = "created", ![t].seen = _prev_totals]
    /\ UNCHANGED <<engine_vars, exposed, twin, store_vars, _last_snapshot_date, listeners, answer>>

\* mutant: every branch goes on to the daily snapshot
Continuation_always(result) == "at_snapshot"

\* where an invocation is once its result is built: the valid branch goes on
\* to _maybe_create_daily_snapshot, the others have returned
Continuation(result) == IF result.deltas.valid THEN "at_snapshot" ELSE "returned"

\* an invocation up to its return or, in the valid branch, its await
Begin ==
    /\ calls < MaxCalls
    /\ \E t \in TaskIds :
         /\ tasks[t].pc = "created"
         /\ \E st \in [entry_data -> EntityStates] :
              /\ InvokeFrom(BaselineRead(t), Ents([s \in entry_data |-> _read_energy_total_kwh(st[s])]),
                            _read_float_safe(None))
              /\ tasks' = [tasks EXCEPT ![t] =
                             [pc     |-> Continuation(returned'[1]),
                              seen   |-> @.seen,
                              read   |-> Some(BaselineRead(t)),
                              left   |-> Some(_prev_totals'),
                              result |-> returned']]
    /\ UNCHANGED <<exposed, twin, store_vars, _last_snapshot_date, listeners, answer>>

\* the rest of a valid invocation: the daily snapshot, then the return
Finish ==
    \E t \in TaskIds, day \in {<<0, 0>>, <<1, 0>>}, io \in IoOutcomes :
      /\ tasks[t].pc = "at_snapshot"
      /\ \E m \in {_maybe_create_daily_snapshot(_last_snapshot_date, _data, _loaded, disk, today, day, io)} :
           /\ _last_snapshot_date' = m.last
           /\ IF m.added THEN Apply(m, "upsert", Some(Snapshot(today, day)))
              ELSE UNCHANGED <<_data, _data_shape, _loaded, disk, last_op>>
           /\ tasks' = [tasks EXCEPT ![t].pc = IF m.raised THEN "raised" ELSE "returned"]
      /\ UNCHANGED <<engine_vars, exposed, twin, today, steps, listeners, answer>>

NextTasks ==
    \/ Load /\ OtherIdle
    \/ Spawn
    \/ Begin
    \/ Finish

\* one imported-energy entity, no carbon-intensity entity
SpecTasks == InitOf({{"imported_kwh"}}, {Absent}) /\ [][NextTasks]_vars

\* ------------------------------------------------------------- SpecReader
\* A coordinator without entities, or with two entities of imported energy,
\* reading entity states of every kind.
\* one invocation of _async_update_data; answer keeps the states it read
ReadSources ==
    /\ calls < MaxCalls
    /\ \E pair \in [1..2 -> {[kind |-> k, value |-> 0, unit |-> "kwh"] :
                                k \in {"absent", "unknown", "unavailable", "text"}}
                               \cup {[kind |-> "number", value |-> 1, unit |-> "kwh"],
                                     [kind |-> "number", value |-> 2000, unit |-> "wh"],
                                     [kind |-> "number", value |-> 1, unit |-> "other"],
                                     [kind |-> "number", value |-> 1, unit |-> ""]}] :
         LET states == [s \in SourceSet |-> IF s \in entry_data THEN pair ELSE <<>>]
             ents   == [s \in SourceSet |->
                          IF states[s] = <<>> THEN <<>>
                          ELSE [i \in 1..Len(states[s]) |-> _read_energy_total_kwh(states[s][i])]]
         IN  /\ Invoke(ents, _read_float_safe(None))
             /\ answer' = [op |-> "read", states |-> states]
    /\ UNCHANGED <<exposed, twin, store_vars, task_vars>>

NextReader == ReadSources

SpecReader == InitOf({{}, {"imported_kwh"}}, {Absent}) /\ [][NextReader]_vars

\* ------------------------------------------------------------- SpecInflux
\* The quarter-hour handler of the InfluxDB logger beside a coordinator.
\* The 15-minute sensor is absent, holds a text or holds a number. The write
\* ends with status 204, another status, an aiohttp.ClientError, an exception
\* that is no ClientError while sending (a timeout), or an exception while the
\* data point is built.

\* _write_data_point: returns without a write when the sensor has no number;
\* logs a status other than 204 and a ClientError; lets anything else out
_write_data_point(sensor, end) ==
    IF sensor # "number" THEN [sent |-> FALSE, raised |-> FALSE]
    ELSE IF end = "build_error" THEN [sent |-> FALSE, raised |-> TRUE]
    ELSE [sent |-> end = "204", raised |-> end = "timeout"]

\* mutant: what _write_data_point raises is not caught
_handle_quarter_hour_uncaught(enabled, session, sensor, end) ==
    IF ~enabled \/ ~session THEN [sent |-> FALSE, raised |-> FALSE]
    ELSE _write_data_point(sensor, end)

\* _handle_quarter_hour: nothing when disabled or without session; any
\* exception of _write_data_point is logged
_handle_quarter_hour(enabled, session, sensor, end) ==
    IF ~enabled \/ ~session THEN [sent |-> FALSE, raised |-> FALSE]
    ELSE LET w == _write_data_point(sensor, end)
         IN  [sent |-> w.sent, raised |-> FALSE]

\* the time callback of minute 0, 15, 30 and 45; answer keeps how it ended
QuarterHour ==
    /\ \E enabled \in BOOLEAN, session \in BOOLEAN, sensor \in {"absent", "text", "number"},
          end \in {"204", "500", "client_error", "timeout", "build_error"} :
         \E h \in {_handle_quarter_hour(enabled, session, sensor, end)} :
           answer' = [op |-> "quarter_hour", enabled |-> enabled /\ session, sensor |-> sensor, end |-> end,
                      sent |-> h.sent, raised |-> h.raised]
    /\ UNCHANGED <<engine_vars, exposed, twin, store_vars, task_vars>>

NextInflux ==
    \/ Compute
    \/ QuarterHour

SpecInflux == InitOf({{"imported_kwh"}}, {Absent}) /\ [][NextInflux]_vars

\* -------------------------------------------------------------- SpecDaily
\* One coordinator after another over one file: setup, the passing of days,
\* the two triggers of the daily snapshot, and a restart.
\* _maybe_create_daily_snapshot at date now, once setup has loaded the store,
\* with the day sensors' readings; last_op keeps what was read and whether an
\* upsert was issued
Trigger(now) ==
    /\ _loaded
    /\ _data_shape = "ok"
    /\ \E day \in DayReadings, io \in IoOutcomes :
         \E m \in {_maybe_create_daily_snapshot(_last_snapshot_date, _data, _loaded, disk, now, day, io)} :
           /\ _last_snapshot_date' = m.last
           /\ _data' = m.data
           /\ _data_shape' = m.shape
           /\ _loaded' = m.loaded
           /\ disk' = m.disk
           /\ last_op' = [op |-> IF m.added THEN "upsert" ELSE "skip", arg |-> Some(Snapshot(now, day)),
                          file |-> Absent, repeat |-> FALSE, replaced |-> FALSE]
    /\ UNCHANGED <<engine_vars, exposed, twin, tasks, listeners, answer>>

\* the tail of a recomputation that returns a valid interval
RecomputeTail ==
    /\ Trigger(today)
    /\ UNCHANGED <<today, steps>>

\* the callback of 00:00:00 local time: the date has just changed
_handle_midnight_snapshot ==
    /\ steps.advance < MaxAdvances
    /\ today' = today + 1
    /\ steps' = [steps EXCEPT !.advance = @ + 1]
    /\ Trigger(today')

\* a new coordinator with a new store object over the same file
CoordinatorRestart ==
    /\ Restart
    /\ _last_snapshot_date' = None
    /\ UNCHANGED <<engine_vars, exposed, twin, tasks, listeners, answer>>

NextDaily ==
    \/ Load /\ OtherIdle
    \/ DayAdvance /\ OtherIdle
    \/ RecomputeTail
    \/ _handle_midnight_snapshot
    \/ CoordinatorRestart

SpecDaily == InitOf({{}}, {Absent}) /\ [][NextDaily]_vars

\* ---------------------------------------------------------- SpecListeners
\* The life of one coordinator: async_setup_entry (metrics store, listeners,
\* first refresh), state-change events and midnight callbacks, and
\* async_stop_listeners as async_unload_entry calls it.
\* a registration whose remover has not been called
Active(l) == l.registered /\ l.removed = 0

\* the event filter of the subscription: the entity is an input entity
event_filter(event, all_entities) == event.entity_id \in all_entities

\* mutant: a task is created whatever states the event carries
_handle_state_change_any(event) == TRUE

\* _handle_state_change: whether it creates the task of an invocation
_handle_state_change(event) == event.new_state /\ event.old_state

\* async_setup_metrics_store: load, then register the midnight callback
SetupStore ==
    /\ listeners.phase = "new"
    /\ Load
    /\ listeners' = [listeners EXCEPT !.phase = "store_ready", !.midnight.registered = TRUE]
    /\ UNCHANGED <<engine_vars, exposed, twin, tasks, _last_snapshot_date, answer>>

\* async_start_listeners: one subscription, unless no entity is configured
StartListeners ==
    /\ listeners.phase = "store_ready"
    /\ listeners' = IF entry_data = {} THEN [listeners EXCEPT !.phase = "listening"]
                    ELSE [listeners EXCEPT !.phase = "listening", !.state_change.registered = TRUE,
                                           !._state_listeners = @ + 1]
    /\ UNCHANGED <<engine_vars, exposed, twin, store_vars, tasks, _last_snapshot_date, answer>>

\* _maybe_create_daily_snapshot at date now
SnapshotTail(now) ==
    \E day \in {<<0, 0>>, <<1, 0>>}, io \in IoOutcomes :
      \E m \in {_maybe_create_daily_snapshot(_last_snapshot_date, _data, _loaded, disk, now, day, io)} :
        /\ _last_snapshot_date' = m.last
        /\ _data' = m.data
        /\ _data_shape' = m.shape
        /\ _loaded' = m.loaded
        /\ disk' = m.disk
        /\ last_op' = [op |-> IF m.added THEN "upsert" ELSE "skip", arg |-> Some(Snapshot(now, day)),
                       file |-> Absent, repeat |-> FALSE, replaced |-> FALSE]

\* one invocation of _async_update_data, the daily snapshot of its valid
\* branch included
ComputeCycle ==
    /\ calls < MaxCalls
    /\ \E rd \in [entry_data -> EntityReadings] : Invoke(Ents(rd), _read_float_safe(None))
    /\ IF returned'[1].deltas.valid THEN SnapshotTail(today)
       ELSE UNCHANGED <<_data, _data_shape, _loaded, disk, last_op, _last_snapshot_date>>

\* async_refresh of async_setup_entry
Refresh ==
    /\ listeners.phase = "listening"
    /\ ComputeCycle
    /\ listeners' = [listeners EXCEPT !.phase = "running"]
    /\ UNCHANGED <<exposed, twin, today, steps, tasks, answer>>

\* a state-change event on the bus: the entity of a source, with or without
\* an old and a new state
StateChanged ==
    /\ listeners.phase \in {"running", "stopped"}
    /\ \E event \in [entity_id : {"imported_kwh", "exported_kwh"}, old_state : BOOLEAN, new_state : BOOLEAN] :
         /\ listeners' = [listeners EXCEPT !.last_event = Some(event)]
         /\ IF /\ Active(listeners.state_change)
               /\ event_filter(event, entry_data)
               /\ _handle_state_change(event)
            THEN ComputeCycle
            ELSE UNCHANGED <<engine_vars, _data, _data_shape, _loaded, disk, last_op, _last_snapshot_date>>
    /\ UNCHANGED <<exposed, twin, today, steps, tasks, answer>>

\* 00:00:00 local time with the time listener in place
MidnightCallback ==
    /\ listeners.phase \in {"running", "stopped"}
    /\ Active(listeners.midnight)
    /\ steps.advance < MaxAdvances
    /\ today' = today + 1
    /\ steps' = [steps EXCEPT !.advance = @ + 1]
    /\ SnapshotTail(today')
    /\ UNCHANGED <<engine_vars, exposed, twin, tasks, listeners, answer>>

\* async_stop_listeners: call the removers of the list, clear the list
StopListeners ==
    /\ listeners.phase = "running"
    /\ listeners' = [listeners EXCEPT !.phase = "stopped",
                                      !.state_change.removed = @ + listeners._state_listeners,
                                      !._state_listeners = 0]
    /\ UNCHANGED <<engine_vars, exposed, twin, store_vars, tasks, _last_snapshot_date, answer>>

NextListeners ==
    \/ SetupStore
    \/ StartListeners
    \/ Refresh
    \/ StateChanged
    \/ MidnightCallback
    \/ StopListeners

SpecListeners == InitOf({{}, {"imported_kwh"}}, {Absent}) /\ [][NextListeners]_vars

\* ----------------------------------------------------- reading the history
\* the last invocation had all five sources readable / had one unreadable
LastReadable == calls > 0 /\ Readable(cur_in[1].cur)
LastMissing == calls > 0 /\ ~Readable(cur_in[1].cur)
HadBaseline == pre_totals # None
\* the last invocation's current total, raw difference and returned delta
Cur(s) == cur_in[1].cur[s][1]
Raw(s) == Cur(s) - pre_totals[1][s]
Delta(s) == returned[1].deltas[DeltaField(s)]
Valid == returned[1].deltas.valid
Reason == returned[1].deltas.reason
AllDeltasZero == \A s \in SourceSet : Delta(s) = 0
Negative(s) == Raw(s) < 0
Spike(s) == Raw(s) > _max_kwh_per_change
Before(t, s) == Pos(t) < Pos(s)
\* the totals the last invocation read, as totals and as baseline
ReportsCurrent == /\ \A s \in SourceSet : returned[1].totals[s] = Cur(s)
                  /\ returned[1].totals.co2_intensity_g_per_kwh = cur_in[1].co2
BaselineIsCurrent == /\ _prev_totals # None
                     /\ \A s \in SourceSet : _prev_totals[1][s] = Cur(s)
                     /\ _prev_totals[1].co2_intensity_g_per_kwh = cur_in[1].co2

\* ------------------------------------------------------------------ claims

\* C1: a cycle with an unreadable source leaves the baseline as it was (absent
\* stays absent, a present one keeps its five cumulative values), and the
\* first cycle with all sources readable after such cycles is classified and
\* its deltas computed against the baseline from before the gap (a gap with
\* no baseline before it is followed by the initial cycle, never by deltas
\* against zero).
C1_MissingKeepsBaseline ==
    /\ LastMissing =>
         /\ (pre_totals = None => _prev_totals = None)
         /\ (pre_totals # None => /\ _prev_totals # None
                                  /\ Cumulative(_prev_totals[1]) = Cumulative(pre_totals[1]))
    /\ (gap.phase = "in" /\ gap.base = None) => _prev_totals = None
    /\ (gap.phase = "in" /\ gap.base # None) =>
         /\ _prev_totals # None
         /\ Cumulative(_prev_totals[1]) = Cumulative(gap.base[1])
    /\ (gap.phase = "after" /\ gap.base = None) => (Reason = "initial" /\ AllDeltasZero)
    /\ (gap.phase = "after" /\ gap.base # None) =>
         LET ok == \A s \in SourceSet : Cur(s) - gap.base[1][s] \in 0.._max_kwh_per_change
         IN  /\ Valid = ok
             /\ \A s \in SourceSet : Delta(s) = IF ok THEN Cur(s) - gap.base[1][s] ELSE 0

\* a valid cycle right after a gap whose delta is measured from a pre-gap
\* baseline that is not zero
C1_Witness ==
    /\ gap.phase = "after"
    /\ gap.base # None
    /\ Valid
    /\ \E s \in SourceSet : gap.base[1][s] > 0 /\ Delta(s) > 0

\* C2: the k-th invocation returns seq = k, whatever branch it takes.
C2_SeqCountsInvocations ==
    /\ _seq = calls
    /\ returned # None => returned[1].seq = calls

\* the third invocation, rejected for a negative delta or a spike
C2_Witness ==
    /\ calls = 3
    /\ Reason \in {"negative_delta", "spike_detected"}

\* C3: an invalid result has all five deltas zero and a reason; a valid one
\* has no reason and no negative delta.
C3_InvalidMeansZeroDeltas ==
    returned # None =>
      /\ ~Valid => (AllDeltasZero /\ Reason \in {"initial", "missing_input", "negative_delta", "spike_detected"})
      /\ Valid => (Reason = NoReason /\ \A s \in SourceSet : Delta(s) >= 0)

\* a cycle rejected for a spike of one source while another source rose by an
\* acceptable amount, reported as zero
C3_Witness ==
    /\ LastReadable /\ HadBaseline
    /\ Reason = "spike_detected"
    /\ \E s \in SourceSet : Raw(s) \in 1.._max_kwh_per_change /\ Delta(s) = 0

\* C4 as stated: a negative raw reading of a source gives delta 0 for it,
\* reason negative_delta for the cycle, and the baseline re-armed.
C4_Original ==
    (LastReadable /\ HadBaseline) =>
      \A s \in SourceSet : Negative(s) =>
        (Delta(s) = 0 /\ Reason = "negative_delta" /\ BaselineIsCurrent)

\* C4 amended: a negative raw reading of a source gives delta 0 for it, an
\* invalid cycle and the baseline re-armed to the current totals; the reason
\* is negative_delta unless a source earlier in the order exceeds the
\* ceiling, and is then negative_delta or spike_detected.
C4_NegativeRearms ==
    (LastReadable /\ HadBaseline) =>
      \A s \in SourceSet : Negative(s) =>
        /\ Delta(s) = 0
        /\ ~Valid
        /\ BaselineIsCurrent
        /\ Reason \in {"negative_delta", "spike_detected"}
        /\ (\A t \in SourceSet : Before(t, s) => ~Spike(t)) => Reason = "negative_delta"

\* a meter reset: the baseline is re-armed to a lower total
C4_Witness ==
    /\ LastReadable /\ HadBaseline
    /\ Reason = "negative_delta"
    /\ \E s \in SourceSet : Negative(s) /\ _prev_totals[1][s] < pre_totals[1][s]

\* C5 as stated: a raw difference above the ceiling gives delta 0, reason
\* spike_detected for the cycle, and the baseline re-armed.
C5_Original ==
    (LastReadable /\ HadBaseline) =>
      \A s \in SourceSet : Spike(s) =>
        (Delta(s) = 0 /\ Reason = "spike_detected" /\ BaselineIsCurrent)

\* C5 amended: a raw difference above the ceiling gives delta 0 for that
\* source, an invalid cycle and the baseline re-armed to the current totals;
\* the reason is spike_detected unless a source earlier in the order went
\* down, and is then spike_detected or negative_delta.
C5_SpikeRearms ==
    (LastReadable /\ HadBaseline) =>
      \A s \in SourceSet : Spike(s) =>
        /\ Delta(s) = 0
        /\ ~Valid
        /\ BaselineIsCurrent
        /\ Reason \in {"negative_delta", "spike_detected"}
        /\ (\A t \in SourceSet : Before(t, s) => ~Negative(t)) => Reason = "spike_detected"

\* a spike: the baseline is re-armed to a higher total
C5_Witness ==
    /\ LastReadable /\ HadBaseline
    /\ Reason = "spike_detected"
    /\ \E s \in SourceSet : Spike(s) /\ _prev_totals[1][s] > pre_totals[1][s] + _max_kwh_per_change

\* C6: while every invocation so far had all sources readable and every
\* per-source change between consecutive invocations was within
\* [0, ceiling], the deltas returned since the first invocation (cycle 0,
\* which established the baseline) sum, per source, to the current total
\* minus the total of cycle 0.
C6_Telescoping ==
    (tele.clean /\ calls > 0) =>
      \A s \in SourceSet : tele.sum[s] = Cur(s) - tele.t0[s]

\* two accepted cycles after cycle 0 whose deltas add up to more than the
\* ceiling
C6_Witness ==
    /\ tele.clean
    /\ calls >= 3
    /\ \E s \in SourceSet : tele.sum[s] > _max_kwh_per_change /\ Delta(s) > 0

\* C7: when more than one source is rejected, the cycle's reason is that of
\* the first rejected source in the order import, export, produced, charge,
\* discharge.
C7_FirstRejectedDecides ==
    (LastReadable /\ HadBaseline) =>
      LET rejected == {s \in SourceSet : Negative(s) \/ Spike(s)}
      IN  Cardinality(rejected) > 1 =>
            \E f \in rejected :
              /\ \A t \in rejected : t = f \/ Before(f, t)
              /\ Reason = IF Negative(f) THEN "negative_delta" ELSE "spike_detected"

\* an earlier source spikes, a later one goes down: spike_detected
C7_Witness ==
    /\ LastReadable /\ HadBaseline
    /\ Reason = "spike_detected"
    /\ \E f, t \in SourceSet : Before(f, t) /\ Spike(f) /\ Negative(t)

\* C8: the first cycle with all sources readable and no baseline is invalid
\* with reason initial and zero deltas, reports the current totals and makes
\* them the baseline.
C8_InitialEstablishesBaseline ==
    (LastReadable /\ ~HadBaseline) =>
      /\ ~Valid
      /\ Reason = "initial"
      /\ AllDeltasZero
      /\ ReportsCurrent
      /\ BaselineIsCurrent

\* a first readable cycle, after an unreadable one, with a total above zero
C8_Witness ==
    /\ LastReadable /\ ~HadBaseline
    /\ calls > 1
    /\ \E s \in SourceSet : Cur(s) > 0

\* C9: a cycle with an unreadable source is invalid with reason
\* missing_input and zero deltas, reports the cumulative values of the
\* baseline (zeros when there is none) and this cycle's carbon intensity.
C9_MissingReportsBaseline ==
    LastMissing =>
      /\ ~Valid
      /\ Reason = "missing_input"
      /\ AllDeltasZero
      /\ Cumulative(returned[1].totals) = IF HadBaseline THEN Cumulative(pre_totals[1]) ELSE Zeros
      /\ returned[1].totals.co2_intensity_g_per_kwh = cur_in[1].co2

\* an unreadable cycle over a baseline that is not zero, with a carbon
\* intensity that differs from the baseline's
C9_Witness ==
    /\ LastMissing /\ HadBaseline
    /\ \E s \in SourceSet : pre_totals[1][s] > 0 /\ returned[1].totals[s] > 0
    /\ cur_in[1].co2 # pre_totals[1].co2_intensity_g_per_kwh

\* C10: with a baseline and every raw difference within [0, ceiling] (the
\* ceiling included), the cycle is valid without a reason, each delta is its
\* raw difference, and the baseline becomes the current totals.
C10_AcceptedCycle ==
    (LastReadable /\ HadBaseline /\ \A s \in SourceSet : Raw(s) \in 0.._max_kwh_per_change) =>
      /\ Valid
      /\ Reason = NoReason
      /\ \A s \in SourceSet : Delta(s) = Raw(s)
      /\ ReportsCurrent
      /\ BaselineIsCurrent

\* an accepted cycle in which a source rose by exactly the ceiling
C10_Witness ==
    /\ LastReadable /\ HadBaseline
    /\ Valid
    /\ \E s \in SourceSet : Raw(s) = _max_kwh_per_change /\ Delta(s) = _max_kwh_per_change

\* C11: after a cycle rejected as negative_delta or spike_detected, the next
\* cycle, when all sources are readable and every change from the rejected
\* cycle's totals is within [0, ceiling], is valid and its deltas are
\* measured from the rejected cycle's totals.
C11_RecoversAfterRejection ==
    (/\ exposed # None
     /\ exposed[1].result.deltas.reason \in {"negative_delta", "spike_detected"}
     /\ LastReadable
     /\ \A s \in SourceSet : Cur(s) - exposed[1].result.totals[s] \in 0.._max_kwh_per_change) =>
      /\ Valid
      /\ Reason = NoReason
      /\ \A s \in SourceSet : Delta(s) = Cur(s) - exposed[1].result.totals[s]

\* initial, valid, negative_delta, then a valid cycle with a delta above zero
C11_Witness ==
    /\ calls = 4
    /\ exposed # None
    /\ exposed[1].result.deltas.reason = "negative_delta"
    /\ Valid
    /\ \E s \in SourceSet : Delta(s) > 0 /\ Delta(s) = Cur(s) - exposed[1].result.totals[s]

\* C13: the totals of a result that was returned keep the values they had
\* when it was returned, whatever a later invocation does.
C13_ReturnedTotalsKeepValues ==
    exposed # None => exposed[1].totals_now = exposed[1].result.totals

\* C16: once there is a baseline there is one in every later state and no
\* later cycle returns reason initial; a cycle returns initial only when it
\* began without a baseline and read all five sources.
C16_InitialOnlyOnce ==
    [][/\ _prev_totals # None =>
            (_prev_totals' # None /\ returned'[1].deltas.reason # "initial")
       /\ returned'[1].deltas.reason = "initial" =>
            (_prev_totals = None /\ Readable(cur_in'[1].cur))]_vars

\* a baseline that has lived through an unreadable cycle and a rejected one
C16_Witness ==
    /\ calls = 4
    /\ gap.phase = "after"
    /\ gap.base # None
    /\ Reason \in {"negative_delta", "spike_detected"}

\* C15: two runs given the same cumulative readings and different
\* carbon-intensity readings agree, in every cycle, on the validity flag, the
\* reason, the five deltas, the sequence number and the baseline's cumulative
\* values.
C15_Co2NeverInvalidates ==
    calls > 0 =>
      /\ twin.result[1].deltas = returned[1].deltas
      /\ twin.result[1].seq = returned[1].seq
      /\ twin.seq = _seq
      /\ (twin.prev_totals = None) = (_prev_totals = None)
      /\ _prev_totals # None => Cumulative(twin.prev_totals[1]) = Cumulative(_prev_totals[1])

\* a valid cycle with a delta above zero in which one run read no carbon
\* intensity and the other one did
C15_Witness ==
    /\ calls > 1
    /\ Valid
    /\ \E s \in SourceSet : Delta(s) > 0
    /\ twin.result[1].totals.co2_intensity_g_per_kwh # returned[1].totals.co2_intensity_g_per_kwh
    /\ twin.prev_totals[1].co2_intensity_g_per_kwh = 0

\* ------------------------------------------------------ claims on the store
Dated(snaps, date) == {i \in 1..Len(snaps) : snaps[i].date = date}

Cutoff == today - RETENTION_DAYS

\* C17: the collection never holds two records of one date, and after an
\* upsert of a dated snapshot the one record of that date is the snapshot just
\* upserted.
C17_OnePerDate ==
    /\ \A i, j \in 1..Len(_data) : _data[i].date = _data[j].date => i = j
    /\ (last_op.op = "upsert" /\ HasDate(last_op.arg[1])) =>
         \E i \in 1..Len(_data) : _data[i] = last_op.arg[1] /\ Dated(_data, last_op.arg[1].date) = {i}

\* an upsert has replaced a record of the same date and other field values
C17_Witness ==
    /\ last_op.op = "upsert"
    /\ last_op.replaced
    /\ Dated(_data, last_op.arg[1].date) # {}
    /\ \A i \in Dated(_data, last_op.arg[1].date) : _data[i] = last_op.arg[1]

\* C18: an upsert of the snapshot that the operation just before it upserted
\* leaves the collection as it was, with one record of that date.
C18_UpsertIdempotent ==
    [][last_op'.repeat =>
         /\ _data' = _data
         /\ HasDate(last_op'.arg[1]) => Cardinality(Dated(_data', last_op'.arg[1].date)) = 1]_vars

\* the same dated snapshot was upserted twice in a row
C18_Witness ==
    /\ last_op.repeat
    /\ HasDate(last_op.arg[1])
    /\ Cardinality(Dated(_data, last_op.arg[1].date)) = 1

\* the records load read
Loaded == IF last_op.file.kind = "doc" THEN last_op.file.daily_snapshots ELSE <<>>

\* C19: after load, the collection holds exactly the records read that are
\* dated at or after the day 90 days before today, in the order read: none
\* older, none without a date.
C19_LoadRetains90Days ==
    last_op.op = "load" =>
      /\ \A i \in 1..Len(_data) : _data[i].date >= Cutoff /\ HasDate(_data[i])
      /\ \A i \in 1..Len(Loaded) : Loaded[i].date >= Cutoff => \E j \in 1..Len(_data) : _data[j] = Loaded[i]
      /\ \A j \in 1..Len(_data) : \E i \in 1..Len(Loaded) : _data[j] = Loaded[i]

\* load read a record without a date, one dated 91 days ago and one dated 90
\* days ago, and kept the last one only
C19_Witness ==
    /\ last_op.op = "load"
    /\ Len(Loaded) = 3
    /\ \E i \in 1..3 : ~HasDate(Loaded[i])
    /\ \E i \in 1..3 : Loaded[i].date = Cutoff - 1
    /\ Len(_data) = 1
    /\ _data[1].date = Cutoff

\* C20: in every state that a load or an upsert has left, no record is dated
\* more than 90 days before today.
C20_WindowAtAllTimes ==
    (_loaded /\ last_op.op \in {"load", "upsert"}) =>
      \A i \in 1..Len(_data) : _data[i].date >= Cutoff

\* ------------------------------------------------- claims on the invocations
Begun == {t \in TaskIds : tasks[t].pc \in {"at_snapshot", "returned", "raised"}}

\* C12: the invocations that have run return distinct sequence numbers, and
\* each one read the baseline that the invocation with the sequence number just
\* before its own left (the first one read no baseline).
C12_InvocationsAtomic ==
    /\ \A t, u \in Begun : tasks[t].result[1].seq = tasks[u].result[1].seq => t = u
    /\ \A t \in Begun :
         IF tasks[t].result[1].seq = 1 THEN tasks[t].read[1] = None
         ELSE \E u \in Begun : /\ tasks[u].result[1].seq = tasks[t].result[1].seq - 1
                               /\ tasks[t].read = tasks[u].left

\* an invocation ran, with a delta above zero, while an earlier one was
\* suspended at its await
C12_Witness ==
    \E t, u \in Begun :
      /\ tasks[t].pc = "at_snapshot"
      /\ tasks[u].result[1].seq = tasks[t].result[1].seq + 1
      /\ tasks[u].result[1].deltas.valid
      /\ \E s \in SourceSet : tasks[u].result[1].deltas[DeltaField(s)] > 0

\* C14: no invocation ends by raising; one that has returned has a result with
\* totals, deltas and seq whose reason is absent or one of the four reasons.
C14_NeverRaises ==
    \A t \in TaskIds :
      /\ tasks[t].pc # "raised"
      /\ tasks[t].pc = "returned" =>
           /\ tasks[t].result # None
           /\ DOMAIN tasks[t].result[1] = {"totals", "deltas", "seq"}
           /\ tasks[t].result[1].deltas.reason \in
                {NoReason, "initial", "missing_input", "negative_delta", "spike_detected"}

\* a valid invocation has returned although the write of the daily snapshot
\* failed
C14_Witness ==
    \E t \in TaskIds :
      /\ tasks[t].pc = "returned"
      /\ tasks[t].result[1].deltas.valid
      /\ last_op.op = "upsert"
      /\ disk.kind = "corrupt"
      /\ \E u \in TaskIds : tasks[u].pc = "returned" /\ tasks[u].result[1].deltas.reason = "missing_input"

\* Sorted(snaps): newest first
Sorted(snaps) == \A i, j \in 1..Len(snaps) : i < j => snaps[i].date >= snaps[j].date

\* C21: in every state that a load or an upsert has left, the collection is
\* sorted by date, newest first.
C21_SortedNewestFirst == last_op.op \in {"load", "upsert"} => Sorted(_data)

\* C22: a load of a file that is absent, unreadable, without a daily_snapshots
\* list or not an object completes without raising and leaves the store
\* loaded with the empty collection.
C22_LoadNeverFatal ==
    (last_op.op \in {"load", "load_raised"} /\ last_op.file.kind # "doc") =>
      /\ last_op.op = "load"
      /\ _loaded
      /\ _data_shape = "ok"
      /\ _data = <<>>

\* C23: when an upsert of a dated snapshot has returned, the file holds the
\* collection that is in memory.
C23_WriteThrough ==
    (last_op.op = "upsert" /\ HasDate(last_op.arg[1])) => disk = Doc(_data)

\* a step that is one call of add_daily_snapshot with a snapshot without a date
DatelessUpsert ==
    /\ steps'.upsert = steps.upsert + 1
    /\ last_op'.op = "upsert"
    /\ ~HasDate(last_op'.arg[1])

\* C24 as stated: an upsert of a snapshot without a date changes neither the
\* collection nor the file.
C24_Original == [][DatelessUpsert => (_data' = _data /\ disk' = disk)]_vars

\* C24: an upsert of a snapshot without a date never stores it; on a loaded
\* store it changes neither the collection nor the file, and on a store not
\* yet loaded it does what a load does.
C24_DatelessRejected ==
    [][DatelessUpsert =>
         /\ \A i \in 1..Len(_data') : _data'[i] # last_op'.arg[1]
         /\ _loaded'
         /\ _loaded => (_data' = _data /\ disk' = disk)
         /\ ~_loaded => \E io \in IoOutcomes :
              \E l \in {async_load(_data, disk, today, io)} : _data' = l.data /\ disk' = l.disk]_vars

\* a snapshot without a date was upserted into a loaded store that holds a
\* record
C24_Witness ==
    /\ last_op.op = "upsert"
    /\ ~HasDate(last_op.arg[1])
    /\ steps.upsert = 2
    /\ steps.restart = 0
    /\ Len(_data) = 1
    /\ HasDate(_data[1])

\* The positions of the collection's records that qualify for the metric and
\* window of the query answered last.
Qualifying ==
    {i \in 1..Len(_data) :
       /\ _data[i].date >= today - answer.days
       /\ answer.key \in DOMAIN _data[i]
       /\ IsNumber(_data[i], answer.key)}

Aggregates == {"get_average", "get_min", "get_max"}

\* C25: an average, a maximum or a minimum asked when no record of the
\* collection qualifies has returned 0.0, 0.0 or the sentinel 999999.
C25_SentinelsWithoutData ==
    (answer.op \in Aggregates /\ Qualifying = {}) =>
      answer.result = CASE answer.op = "get_average" -> Zero
                        [] answer.op = "get_max" -> 0
                        [] answer.op = "get_min" -> 999999

\* a minimum over a loaded collection whose only record of the window carries
\* a net_use that is not a number, with an older record outside the window
C25_Witness ==
    /\ answer.op = "get_min"
    /\ answer.key = "net_use"
    /\ answer.days = 7
    /\ _loaded
    /\ Qualifying = {}
    /\ \E i, j \in 1..Len(_data) :
         /\ _data[i].date >= today - 7
         /\ "net_use" \in DOMAIN _data[i]
         /\ _data[j].date < today - 7
         /\ IsNumber(_data[j], "net_use")

RECURSIVE SumOver(_, _)
SumOver(positions, key) ==
    IF positions = {} THEN 0
    ELSE LET i == CHOOSE p \in positions : TRUE
         IN  _data[i][key] + SumOver(positions \ {i}, key)

\* C26: an average, a minimum or a maximum asked when some record qualifies is
\* the mean, the least or the greatest of the values of exactly the records
\* dated at or after today minus the window that carry a number for the metric.
C26_WindowAggregates ==
    (answer.op \in Aggregates /\ _loaded /\ Qualifying # {}) =>
      CASE answer.op = "get_average" ->
             answer.result.num * Cardinality(Qualifying) = SumOver(Qualifying, answer.key) * answer.result.den
        [] answer.op = "get_min" ->
             /\ \E i \in Qualifying : answer.result = _data[i][answer.key]
             /\ \A i \in Qualifying : answer.result <= _data[i][answer.key]
        [] answer.op = "get_max" ->
             /\ \E i \in Qualifying : answer.result = _data[i][answer.key]
             /\ \A i \in Qualifying : answer.result >= _data[i][answer.key]

\* an average of 1 over 7 days: a 1 dated exactly at the cutoff, a 3 dated the
\* day before it and a record of the window without the metric
C26_Witness ==
    /\ answer.op = "get_average"
    /\ answer.key = "net_use"
    /\ answer.days = 7
    /\ answer.result = Ratio(1, 1)
    /\ \E i, j, k \in 1..Len(_data) :
         /\ _data[i].date = today - 7
         /\ i \in Qualifying
         /\ _data[j].date = today - 8
         /\ IsNumber(_data[j], "net_use")
         /\ "net_use" \in DOMAIN _data[j]
         /\ _data[j].net_use = 3
         /\ _data[k].date = today
         /\ "net_use" \notin DOMAIN _data[k]

Gone(sensor_states, id) ==
    /\ id \in DOMAIN sensor_states
    /\ sensor_states[id].state = "unavailable" \/ sensor_states[id].state = "unknown"
    /\ sensor_states[id].last_changed # None
    /\ sensor_states[id].last_changed[1] > 3600

\* C27: has_data_gap has returned true exactly when the production, the
\* consumption, the import or the export signal of the day is among the states
\* given, is unavailable or unknown, and changed last more than an hour ago.
C27_DataGap ==
    answer.op = "has_data_gap" =>
      (answer.result <=>
         \/ Gone(answer.sensor_states, "sensor.ec_production_day")
         \/ Gone(answer.sensor_states, "sensor.ec_consumption_day")
         \/ Gone(answer.sensor_states, "sensor.ec_import_day")
         \/ Gone(answer.sensor_states, "sensor.ec_export_day"))

\* no gap: production is absent, consumption healthy, import unavailable for
\* exactly one hour, export unavailable without a timestamp, and a signal that
\* is not critical unavailable for longer than an hour
C27_Witness ==
    /\ answer.op = "has_data_gap"
    /\ ~answer.result
    /\ DOMAIN answer.sensor_states = (critical_sensors \cup {"sensor.ec_net_energy_use_day"}) \ {"sensor.ec_production_day"}
    /\ answer.sensor_states["sensor.ec_consumption_day"].state = "12.5"
    /\ answer.sensor_states["sensor.ec_import_day"] = [state |-> "unavailable", last_changed |-> Some(3600)]
    /\ answer.sensor_states["sensor.ec_export_day"] = [state |-> "unavailable", last_changed |-> None]
    /\ answer.sensor_states["sensor.ec_net_energy_use_day"] = [state |-> "unavailable", last_changed |-> Some(3601)]

\* C30: in every store state the report that get_notification_data has
\* returned has the fixed set of keys, each the result of its query, and the
\* weekly-trigger flag of the caller.
C30_FixedShapeReport ==
    answer.op = "get_notification_data" =>
      /\ DOMAIN answer.result =
           {"has_data_gap", "ss_today", "net_use_today", "night_use_today", "emissions_today",
            "net_use_7d_avg", "night_use_7d_avg", "export_7d_avg", "production_7d_avg",
            "net_use_30d_avg", "net_use_90d_avg", "ss_max_last_30d", "emissions_min_last_30d",
            "net_use_min_last_30d", "is_weekly_trigger"}
      /\ answer.result.has_data_gap = has_data_gap(answer.days)
      /\ answer.result.net_use_today = get_today_value(_data, _loaded, today, "net_use")
      /\ answer.result.net_use_7d_avg = get_average(_data, _loaded, today, "net_use", 7)
      /\ answer.result.production_7d_avg = get_average(_data, _loaded, today, "production", 7)
      /\ answer.result.net_use_30d_avg = get_average(_data, _loaded, today, "net_use", 30)
      /\ answer.result.net_use_90d_avg = get_average(_data, _loaded, today, "net_use", 90)
      /\ answer.result.net_use_min_last_30d = get_min(_data, _loaded, today, "net_use", 30)
      /\ answer.result.ss_max_last_30d = get_max(_data, _loaded, today, "self_sufficiency", 30)
      /\ answer.result.is_weekly_trigger = (answer.key = Some(TRUE))

\* a step of one of the two triggers of the daily snapshot
TriggerStep == last_op'.op \in {"upsert", "skip"}

\* the trigger is the first one on its date
FirstOnDate == today' # today \/ last_op.op = "advance"

\* a snapshot of the trigger's date is in the collection already
StoredToday == \E i \in 1..Len(_data) : _data[i].date = today'

\* C28 as stated: the first trigger on a new date upserts a snapshot of that
\* date, and no trigger upserts on a date whose snapshot is stored.
C28_Original ==
    [][TriggerStep =>
         /\ FirstOnDate => (last_op'.op = "upsert" /\ \E i \in 1..Len(_data') : _data'[i].date = today')
         /\ StoredToday => last_op'.op = "skip"]_vars

\* C28: a trigger upserts exactly when this coordinator has issued no upsert
\* on the date yet and the day's net use or production reads other than zero;
\* the upsert puts the snapshot of the date into the collection and marks the
\* date, and any other trigger changes nothing.
C28_OncePerDayAndCoordinator ==
    [][TriggerStep =>
         /\ last_op'.op = "upsert" <=>
              /\ _last_snapshot_date # Some(today')
              /\ ~(last_op'.arg[1].net_use = 0 /\ last_op'.arg[1].production = 0)
         /\ last_op'.op = "upsert" =>
              /\ \E i \in 1..Len(_data') : _data'[i] = last_op'.arg[1] /\ _data'[i].date = today'
              /\ _last_snapshot_date' = Some(today')
         /\ last_op'.op = "skip" =>
              /\ _data' = _data
              /\ disk' = disk
              /\ _last_snapshot_date' = _last_snapshot_date]_vars

\* on the day after the first snapshot: a midnight callback that read nothing,
\* a trigger that upserted, and a trigger with readings that did not
C28_Witness ==
    /\ last_op.op = "skip"
    /\ last_op.arg[1].net_use = 1
    /\ _last_snapshot_date = Some(today)
    /\ today = FirstDay + 1
    /\ steps.restart = 0
    /\ Len(_data) = 2
    /\ _data[1].date = today
    /\ _data[2].date = FirstDay

\* what the statement calls unreadable, and the kWh of a readable state
Unreadable(st) == st.kind \in {"absent", "unknown", "unavailable", "text"} \/ st.unit \notin {"kwh", "wh"}

KwhOf(st) == IF st.unit = "wh" THEN st.value \div 1000 ELSE st.value

RECURSIVE KwhOfAll(_)
KwhOfAll(sts) == IF sts = <<>> THEN 0 ELSE KwhOf(Head(sts)) + KwhOfAll(Tail(sts))

\* C29: each source has read as nothing exactly when one of its entities is
\* unreadable, else as the sum of its entities' kWh (Wh divided by 1000), as
\* 0.0 without entities; the interval is missing_input exactly when an entity
\* of some source is unreadable.
C29_ReaderClassifies ==
    answer.op = "read" =>
      /\ \A s \in SourceSet :
           LET sts == answer.states[s]
               cur == cur_in[1].cur[s]
           IN  IF \E i \in 1..Len(sts) : Unreadable(sts[i])
               THEN cur = None
               ELSE cur = Some(KwhOfAll(sts))
      /\ \A s \in SourceSet : answer.states[s] = <<>> => cur_in[1].cur[s] = Some(0)
      /\ returned[1].deltas.reason = "missing_input" <=>
           \E s \in SourceSet : \E i \in 1..Len(answer.states[s]) : Unreadable(answer.states[s][i])

\* imported energy read from one entity in kWh and one in Wh: 1 + 2000 / 1000,
\* the other four sources without entities
C29_Witness ==
    /\ answer.op = "read"
    /\ Len(answer.states["imported_kwh"]) = 2
    /\ answer.states["imported_kwh"][1].unit = "kwh"
    /\ answer.states["imported_kwh"][2].unit = "wh"
    /\ cur_in[1].cur["imported_kwh"] = Some(3)
    /\ cur_in[1].cur["exported_kwh"] = Some(0)
    /\ returned[1].deltas.reason # "missing_input"

\* what a query returns without data
Sentinel(op) ==
    CASE op = "get_average" -> Zero
      [] op = "get_max" -> 0
      [] op = "get_min" -> 999999
      [] op = "get_today_value" -> Number(0)

\* C31: a query answered by a store that is not loaded returns 0.0, or 999999
\* for the minimum; a save on a store that is not loaded leaves the file as it
\* is; and a store that is loaded stays loaded.
C31_LoadedGates ==
    [][/\ (~_loaded' /\ answer'.op \in Aggregates \cup {"get_today_value"}) => answer'.result = Sentinel(answer'.op)
       /\ (~_loaded /\ last_op'.op = "save") => disk' = disk
       /\ _loaded => _loaded']_vars

\* before the load of a file that holds records: a minimum was asked and a
\* save was called
C31_Witness ==
    /\ ~_loaded
    /\ last_op.op = "save"
    /\ disk.kind = "doc"
    /\ Len(disk.daily_snapshots) = 2
    /\ answer.op = "get_min"
    /\ answer.result = 999999

\* the positions of the records of today that carry the metric asked for
TodayCarrying == {i \in 1..Len(_data) : _data[i].date = today /\ answer.key \in DOMAIN _data[i]}

\* C32: get_today_value has returned the value that the record dated today
\* carries for the metric, and 0.0 when no record is dated today or that record
\* lacks the metric, whatever the records of other dates hold.
C32_TodayValue ==
    answer.op = "get_today_value" =>
      IF TodayCarrying = {} THEN answer.result = Number(0)
      ELSE \E i \in TodayCarrying :
             answer.result = IF IsNumber(_data[i], answer.key) THEN Number(_data[i][answer.key]) ELSE NotANumber

\* today's net use of 3 among records of other dates that carry another value
C32_Witness ==
    /\ answer.op = "get_today_value"
    /\ answer.key = "net_use"
    /\ answer.result = Number(3)
    /\ Len(_data) = 3
    /\ _data[1].date = today
    /\ \A i \in 2..3 : _data[i].date < today /\ "net_use" \in DOMAIN _data[i] /\ _data[i].net_use = 1

\* C33: when a load has returned, the file holds exactly the cleaned
\* collection if the cleanup dropped a record, and is as it was if not.
C33_LoadPersistsIffDropped ==
    last_op.op = "load" =>
      IF Len(_data) < Len(Loaded) THEN disk = Doc(_data) ELSE disk = last_op.file

\* C34: a quarter-hour handler whose write fails raises nothing and leaves the
\* baseline, the sequence counter and the returned result as they are.
C34_WriteFailureIsolated ==
    [][(answer' # answer /\ answer'.op = "quarter_hour"
        /\ answer'.enabled /\ answer'.sensor = "number" /\ answer'.end # "204") =>
         /\ ~answer'.raised
         /\ ~answer'.sent
         /\ _prev_totals' = _prev_totals
         /\ _seq' = _seq
         /\ returned' = returned]_vars

\* after two invocations a write timed out
C34_Witness ==
    /\ answer.op = "quarter_hour"
    /\ answer.enabled
    /\ answer.sensor = "number"
    /\ answer.end = "timeout"
    /\ _seq = 2
    /\ _prev_totals # None

\* C35: after an invocation that was not a missing_input cycle the baseline
\* is the totals of its result, all six fields; after a missing_input cycle
\* the baseline has the five cumulative values that the last cycle before the
\* run of missing_input cycles left, and there is none if there was no such
\* cycle.
C35_BaselineTracksResults ==
    calls > 0 =>
      IF Reason # "missing_input"
      THEN _prev_totals = Some(returned[1].totals)
      ELSE IF gap.base = None THEN _prev_totals = None
      ELSE _prev_totals # None /\ \A s \in SourceSet : _prev_totals[1][s] = gap.base[1][s]

\* a missing_input cycle after a valid one that had moved the baseline
C35_Witness ==
    /\ calls = 3
    /\ Reason = "missing_input"
    /\ gap.base # None
    /\ pre_totals = gap.base
    /\ \E s \in SourceSet : _prev_totals[1][s] > 0

\* the trigger read 0.0 for the day's net use and production
ReadNothing(op) == op.arg[1].net_use = 0 /\ op.arg[1].production = 0

\* C36: a trigger that reads 0.0 for net use and production on a date not yet
\* marked upserts nothing and leaves the date unmarked; the next trigger on
\* that date that reads something upserts; and a date becomes marked only in
\* a trigger that upserts.
C36_RetryUntilData ==
    [][TriggerStep =>
         /\ (ReadNothing(last_op') /\ _last_snapshot_date # Some(today')) =>
              /\ last_op'.op = "skip"
              /\ _data' = _data
              /\ disk' = disk
              /\ _last_snapshot_date' = _last_snapshot_date
         /\ (last_op.op = "skip" /\ ReadNothing(last_op) /\ today' = today
               /\ _last_snapshot_date # Some(today) /\ ~ReadNothing(last_op')) =>
              /\ last_op'.op = "upsert"
              /\ _last_snapshot_date' = Some(today)
         /\ _last_snapshot_date' # _last_snapshot_date =>
              /\ last_op'.op = "upsert"
              /\ _last_snapshot_date' = Some(today')]_vars

\* the day after a snapshot: a trigger has read nothing, today is unmarked
C36_Witness ==
    /\ last_op.op = "skip"
    /\ ReadNothing(last_op)
    /\ today = FirstDay + 1
    /\ _last_snapshot_date = Some(FirstDay)
    /\ Len(_data) = 1
    /\ _data[1].date = FirstDay

\* the collection, the file or the date of the last snapshot changes
SnapshotEffect == _data' # _data \/ disk' # disk \/ _last_snapshot_date' # _last_snapshot_date

\* C37: an invocation that ends as missing_input, initial, negative_delta or
\* spike_detected returns without touching the collection, the file or the
\* date of the last snapshot; these change only in the tail of an invocation
\* that is valid and has already stored its baseline and sequence number.
C37_SnapshotOnlyAfterValid ==
    [][/\ \A t \in TaskIds :
            (tasks[t].pc = "created" /\ tasks'[t].pc # "created" /\ ~tasks'[t].result[1].deltas.valid) =>
              /\ tasks'[t].pc = "returned"
              /\ ~SnapshotEffect
       /\ SnapshotEffect =>
            \E t \in TaskIds :
              /\ tasks[t].pc = "at_snapshot"
              /\ tasks'[t].pc # "at_snapshot"
              /\ tasks[t].result[1].deltas.valid
              /\ tasks[t].result[1].seq <= _seq
              /\ tasks[t].left # None
              /\ _seq' = _seq
              /\ _prev_totals' = _prev_totals]_vars

\* an invocation has ended as negative_delta after a valid one had stored the
\* snapshot of today
C37_Witness ==
    /\ \E t \in TaskIds : tasks[t].pc = "returned" /\ tasks[t].result[1].deltas.reason = "negative_delta"
    /\ \E t \in TaskIds : tasks[t].pc = "returned" /\ tasks[t].result[1].deltas.valid
    /\ _last_snapshot_date = Some(today)
    /\ Len(_data) = 1

\* C38: once async_stop_listeners has run, the remover of every registration
\* has been called exactly once, the list of listeners is empty, and no step
\* invokes a computation or creates a snapshot on the coordinator.
C38_StopSilencesTriggers ==
    [][listeners'.phase = "stopped" =>
         /\ \A l \in {listeners'.state_change, listeners'.midnight} : l.registered => l.removed = 1
         /\ listeners'._state_listeners = 0
         /\ listeners.phase = "stopped" =>
              /\ calls' = calls
              /\ _seq' = _seq
              /\ _prev_totals' = _prev_totals
              /\ _data' = _data
              /\ disk' = disk
              /\ _last_snapshot_date' = _last_snapshot_date]_vars

\* the event of the last state change may create the task of an invocation
Triggering(event) == event.entity_id \in entry_data /\ event.old_state /\ event.new_state

\* C39: an invocation follows a state-change event only if the event is of a
\* configured entity and carries an old and a new state; any other event
\* leaves the baseline and the sequence number as they are; and without
\* configured entities no state listener is registered.
C39_OnlyConfiguredChanges ==
    [][/\ entry_data = {} => ~listeners'.state_change.registered
       /\ (listeners'.phase = listeners.phase /\ calls' # calls) =>
            /\ listeners'.last_event # None
            /\ Triggering(listeners'.last_event[1])
       /\ (listeners'.last_event # listeners.last_event /\ ~Triggering(listeners'.last_event[1])) =>
            /\ _prev_totals' = _prev_totals
            /\ _seq' = _seq
            /\ calls' = calls]_vars

\* after the event of a configured entity had led to an invocation, the
\* event of its removal did not
C39_Witness ==
    /\ listeners.phase = "running"
    /\ calls = 2
    /\ _prev_totals # None
    /\ listeners.last_event = Some([entity_id |-> "imported_kwh", old_state |-> TRUE, new_state |-> FALSE])

\* the records a file holds
Persisted(file) == IF file.kind = "doc" THEN file.daily_snapshots ELSE <<>>

\* C40: when add_daily_snapshot has returned on a store that was not loaded,
\* every record the file held that is dated inside the retention window and
\* at another date than the snapshot's is in the collection and in the file.
C40_LazyLoadKeepsHistory ==
    [][(~_loaded /\ steps'.upsert = steps.upsert + 1 /\ last_op'.op = "upsert") =>
         \A i \in 1..Len(Persisted(disk)) :
           (/\ Persisted(disk)[i].date >= today - RETENTION_DAYS
            /\ Persisted(disk)[i].date # last_op'.arg[1].date) =>
             /\ \E j \in 1..Len(_data') : _data'[j] = Persisted(disk)[i]
             /\ \E j \in 1..Len(Persisted(disk')) : Persisted(disk')[j] = Persisted(disk)[i]]_vars

====
